---- MODULE Spec2Model ----
(***************************************************************************)
(* Model of the content-resolution accessors (src/src/schemas.ts,          *)
(* getCanonicalContent / getResolvedContent, with getTextDirection of      *)
(* video-artifacts) and of the usage-counter mapping                       *)
(* (src/src/usage-logging/server.ts, getCounterUpdates).                    *)
(*                                                                         *)
(* JavaScript values are modelled as strings: UNDEF and NULL stand for     *)
(* undefined and null, "" is the empty string, every other string is       *)
(* itself.  A thrown TypeError is the value THROW.                         *)
(***************************************************************************)
EXTENDS Integers, FiniteSets, Sequences, TLC

VARIABLES session, selectedLang, op, ret, counters, updates, nEvents,
          event, calls, store, eventDocs

vars == <<session, selectedLang, op, ret, counters, updates, nEvents,
          event, calls, store, eventDocs>>

resolveVars == <<session, selectedLang, op, ret>>
counterVars == <<counters, updates, nEvents>>
logVars == <<event, calls, store, eventDocs>>

----------------------------------------------------------------------------
(* JavaScript value helpers *)

UNDEF == "undefined"
NULL == "null"
THROW == "TypeError"

\* v == null || v == undefined, the test made by ?? and ?.
Nullish(v) == v \in {UNDEF, NULL}

\* JavaScript truthiness of a string-or-absent value
Truthy(v) == v \notin {UNDEF, NULL, ""}

\* a ?? b
Coalesce(a, b) == IF Nullish(a) THEN b ELSE a

----------------------------------------------------------------------------
(* Input domains *)

\* language codes that occur in the inputs
LangCodes == {"en", "fr", "he", "ar"}

\* keys that the translations map may hold
TranslationKeys == {"en", "he", "fr"}

TranslationStatus == {"ready", "stale", "in_progress", "failed"}

FreshnessStatus == {"canonical", "ready", "stale", "missing"}

\* canonical content: absent, a falsy value (the empty string), a payload
FALSY_CONTENT == ""
CanonicalPayload == "canonical-payload"
Contents == {UNDEF, FALSY_CONTENT, CanonicalPayload}

TranslatedPayloads == {"translated-payload-1", "translated-payload-2"}

\* TranslationEntrySchema, restricted to the fields the accessors read
TranslationEntry == [status : TranslationStatus, translatedContent : TranslatedPayloads]

NoMetadata == [present |-> FALSE, output_language |-> UNDEF, detected_language |-> UNDEF]

Metadatas ==
    {NoMetadata} \cup
    [present : {TRUE}, output_language : {UNDEF, "auto", "en"}, detected_language : {UNDEF, "fr"}]

OriginalLanguages == {UNDEF, "", "auto", "en", "he"}

\* session.translations: absent, or a map from some language codes to entries
EmptyMap == [k \in {} |-> UNDEF]

NoTranslations == [present |-> FALSE, map |-> EmptyMap]

TranslationMaps ==
    UNION {[keys -> TranslationEntry] : keys \in SUBSET TranslationKeys}

Translations ==
    {NoTranslations} \cup [present : {TRUE}, map : TranslationMaps]

\* SessionContentDoc | null | undefined
NoDoc(k) ==
    [kind |-> k, content |-> UNDEF, content_metadata |-> NoMetadata,
     originalLanguage |-> UNDEF, translations |-> NoTranslations]

SessionContentDoc ==
    [kind : {"doc"}, content : Contents, content_metadata : Metadatas,
     originalLanguage : OriginalLanguages, translations : Translations]

Sessions == {NoDoc("null"), NoDoc("undefined")} \cup SessionContentDoc

\* selectedLang: string | undefined | null
Selectors == {UNDEF, NULL, "", "auto"} \cup LangCodes

----------------------------------------------------------------------------
(* video-artifacts: text direction *)

RTL_LANGUAGES == {"ar", "he"}

\* variant: no "auto" direction, every language outside the set is "ltr"
getTextDirectionWithoutAuto(language) ==
    IF language \in RTL_LANGUAGES THEN "rtl" ELSE "ltr"

getTextDirection(language) ==
    IF ~Truthy(language) \/ language = "auto" THEN "auto"
    ELSE IF language \in RTL_LANGUAGES THEN "rtl"
    ELSE "ltr"

----------------------------------------------------------------------------
(* schemas.ts: canonical and resolved content *)

\* the value of a call: kind "undefined" (no result), "value" or "throw"
NoResult ==
    [kind |-> "undefined", contentToUse |-> UNDEF, dir |-> UNDEF,
     languageUsed |-> UNDEF, freshnessStatus |-> UNDEF]

Thrown ==
    [kind |-> "throw", contentToUse |-> UNDEF, dir |-> UNDEF,
     languageUsed |-> UNDEF, freshnessStatus |-> UNDEF]

NotCalled ==
    [kind |-> "none", contentToUse |-> UNDEF, dir |-> UNDEF,
     languageUsed |-> UNDEF, freshnessStatus |-> UNDEF]

ResolvedContentResult(c, d, l, f) ==
    [kind |-> "value", contentToUse |-> c, dir |-> d,
     languageUsed |-> l, freshnessStatus |-> f]

\* the return value of getCanonicalContent, carried in the same record shape
ContentValue(c) ==
    [kind |-> IF c = UNDEF THEN "undefined" ELSE "value", contentToUse |-> c,
     dir |-> UNDEF, languageUsed |-> UNDEF, freshnessStatus |-> UNDEF]

\* session.content; a TypeError when session is null or undefined
ContentOf(s) == IF s.kind = "doc" THEN s.content ELSE THROW

\* variant: a falsy content is reported as absent
getCanonicalContentTruthyOnly(s) ==
    IF s.kind # "doc" \/ ~Truthy(ContentOf(s)) THEN ContentValue(UNDEF)
    ELSE ContentValue(ContentOf(s))

getCanonicalContent(s) ==
    IF s.kind # "doc" THEN ContentValue(UNDEF)
    ELSE ContentValue(ContentOf(s))

\* metadata.<field>; a TypeError when metadata is undefined
MetadataField(metadata, field) ==
    IF metadata.present THEN metadata[field] ELSE THROW

\* variant: the metadata is read without the test for its absence
getEffectiveOriginalLanguageUnguarded(metadata) ==
    IF MetadataField(metadata, "output_language") = "auto"
    THEN MetadataField(metadata, "detected_language")
    ELSE MetadataField(metadata, "output_language")

getEffectiveOriginalLanguage(metadata) ==
    IF ~metadata.present THEN UNDEF
    ELSE IF MetadataField(metadata, "output_language") = "auto"
         THEN MetadataField(metadata, "detected_language")
         ELSE MetadataField(metadata, "output_language")

\* translations[lang] of session.translations ?? {}
NoEntry == [defined |-> FALSE, status |-> UNDEF, translatedContent |-> UNDEF]

TranslationsOrEmpty(s) ==
    IF s.translations.present THEN s.translations.map ELSE EmptyMap

EntryFor(translations, lang) ==
    IF lang \in DOMAIN translations
    THEN [defined |-> TRUE, status |-> translations[lang].status,
          translatedContent |-> translations[lang].translatedContent]
    ELSE NoEntry

\* session?.content
OptionalContent(s) == IF s.kind # "doc" THEN UNDEF ELSE ContentOf(s)

\* variant: canonical content is always given the left-to-right direction
CanonicalResultLeftToRight(canonical, dir, originalLang, lang) ==
    ResolvedContentResult(canonical, "ltr",
                          Coalesce(originalLang, Coalesce(lang, "en")), "canonical")

\* the result of the branch "requested language is the original"
CanonicalResult(canonical, dir, originalLang, lang) ==
    ResolvedContentResult(canonical, dir,
                          Coalesce(originalLang, Coalesce(lang, "en")), "canonical")

\* variant: the fallback reports the original language without the "en" default
MissingResultNoDefault(canonical, dir, originalLang) ==
    ResolvedContentResult(canonical, dir, originalLang, "missing")

\* the result of the branches "no entry" and "in_progress or failed"
MissingResult(canonical, dir, originalLang) ==
    ResolvedContentResult(canonical, dir, Coalesce(originalLang, "en"), "missing")

\* variant: a ready translation is flagged as stale
ReadyResultFlaggedStale(entry, dir, lang) ==
    ResolvedContentResult(entry.translatedContent, dir, lang, "stale")

ReadyResult(entry, dir, lang) ==
    ResolvedContentResult(entry.translatedContent, dir, lang, "ready")

\* variant: a stale translation is served without the stale flag
StaleResultFlaggedReady(entry, dir, lang) ==
    ResolvedContentResult(entry.translatedContent, dir, lang, "ready")

StaleResult(entry, dir, lang) ==
    ResolvedContentResult(entry.translatedContent, dir, lang, "stale")

\* variant: an in_progress or failed entry is served under the "missing" flag
ResolveFromServesUnfinished(canonical, originalLang, lang, dir, entry) ==
    IF ~Truthy(lang) \/ lang = originalLang
    THEN CanonicalResult(canonical, dir, originalLang, lang)
    ELSE IF ~entry.defined THEN MissingResult(canonical, dir, originalLang)
    ELSE IF entry.status = "ready" THEN ReadyResult(entry, dir, lang)
    ELSE IF entry.status = "stale" THEN StaleResult(entry, dir, lang)
    ELSE ResolvedContentResult(entry.translatedContent, dir,
                               Coalesce(originalLang, "en"), "missing")

ResolveFrom(canonical, originalLang, lang, dir, entry) ==
    IF ~Truthy(lang) \/ lang = originalLang
    THEN CanonicalResult(canonical, dir, originalLang, lang)
    ELSE IF ~entry.defined THEN MissingResult(canonical, dir, originalLang)
    ELSE IF entry.status = "ready" THEN ReadyResult(entry, dir, lang)
    ELSE IF entry.status = "stale" THEN StaleResult(entry, dir, lang)
    ELSE MissingResult(canonical, dir, originalLang)

\* variant: the metadata takes precedence over the explicit originalLanguage
OriginalLangMetadataFirst(s) ==
    Coalesce(getEffectiveOriginalLanguage(s.content_metadata), s.originalLanguage)

OriginalLang(s) ==
    Coalesce(s.originalLanguage, getEffectiveOriginalLanguage(s.content_metadata))

\* variant: the "auto" sentinel is taken for a language code
RequestedLangAutoAsCode(sel, originalLang) ==
    IF Truthy(sel) THEN sel ELSE originalLang

RequestedLang(sel, originalLang) ==
    IF Truthy(sel) /\ sel # "auto" THEN sel ELSE originalLang

\* variant: a ready entry older than the content revision is taken for stale
getResolvedContentRecomputingStaleness(s, sel) ==
    IF OptionalContent(s) = THROW THEN Thrown
    ELSE IF ~Truthy(OptionalContent(s)) THEN NoResult
    ELSE LET canonical == s.content
             originalLang == OriginalLang(s)
             lang == RequestedLang(sel, originalLang)
             dir == getTextDirection(Coalesce(lang, UNDEF))
             found == EntryFor(TranslationsOrEmpty(s), lang)
             entry == IF /\ found.defined
                         /\ found.status = "ready"
                         /\ s.translations.map[lang].sourceRevision < s.contentRevision
                      THEN [found EXCEPT !.status = "stale"]
                      ELSE found
         IN  IF originalLang = THROW THEN Thrown
             ELSE ResolveFrom(canonical, originalLang, lang, dir, entry)

getResolvedContent(s, sel) ==
    IF OptionalContent(s) = THROW THEN Thrown
    ELSE IF ~Truthy(OptionalContent(s)) THEN NoResult
    ELSE LET canonical == s.content
             originalLang == OriginalLang(s)
             lang == RequestedLang(sel, originalLang)
             dir == getTextDirection(Coalesce(lang, UNDEF))
             entry == EntryFor(TranslationsOrEmpty(s), lang)
         IN  IF originalLang = THROW THEN Thrown
             ELSE ResolveFrom(canonical, originalLang, lang, dir, entry)

----------------------------------------------------------------------------
(* Specification of the accessors: the inputs are drawn in Init, one call   *)
(* is made.                                                                 *)

NoCounters == [f \in {} |-> 0]

\* no usage event is being logged
NoEvent == [action |-> UNDEF, properties |-> UNDEF]

NoLogging ==
    /\ event = NoEvent
    /\ calls = <<>>
    /\ store = <<>>
    /\ eventDocs = {}

InitResolve ==
    /\ session \in Sessions
    /\ selectedLang \in Selectors
    /\ op = "init"
    /\ ret = NotCalled
    /\ counters = NoCounters
    /\ updates = NoCounters
    /\ nEvents = 0
    /\ NoLogging

CallGetResolvedContent ==
    /\ op = "init"
    /\ op' = "getResolvedContent"
    /\ ret' = getResolvedContent(session, selectedLang)
    /\ UNCHANGED <<session, selectedLang, counterVars, logVars>>

CallGetCanonicalContent ==
    /\ op = "init"
    /\ op' = "getCanonicalContent"
    /\ ret' = getCanonicalContent(session)
    /\ UNCHANGED <<session, selectedLang, counterVars, logVars>>

NextResolve == CallGetResolvedContent \/ CallGetCanonicalContent

SpecResolve == InitResolve /\ [][NextResolve]_vars

----------------------------------------------------------------------------
(* Properties of the accessors                                              *)

Resolved == op = "getResolvedContent"

\* the session has canonical content: a document whose content is a payload
HasCanonicalContent == session.kind = "doc" /\ Truthy(session.content)

\* the effective original language as the design states it: the explicit
\* originalLanguage if present, else the detected language when the declared
\* one is "auto", else the declared one
EffectiveOriginal ==
    IF ~Nullish(session.originalLanguage) THEN session.originalLanguage
    ELSE IF ~session.content_metadata.present THEN UNDEF
    ELSE IF session.content_metadata.output_language = "auto"
         THEN session.content_metadata.detected_language
         ELSE session.content_metadata.output_language

\* the effective original language, "en" when it cannot be determined
EffectiveOriginalOrEn == IF Nullish(EffectiveOriginal) THEN "en" ELSE EffectiveOriginal

\* the selector names a language other than the original one
RequestsOtherLanguage ==
    /\ Truthy(selectedLang)
    /\ selectedLang # "auto"
    /\ selectedLang # EffectiveOriginal

HasEntry ==
    /\ session.translations.present
    /\ selectedLang \in DOMAIN session.translations.map

EntryStatus == session.translations.map[selectedLang].status

EntryContent == session.translations.map[selectedLang].translatedContent

\* C1: a request for another language that has no entry, or an entry that is
\* in_progress or failed, gets the canonical content, freshness "missing" and
\* the effective original language ("en" when undetermined) as languageUsed.
MissingFallsBack ==
    (/\ Resolved
     /\ HasCanonicalContent
     /\ RequestsOtherLanguage
     /\ (~HasEntry \/ EntryStatus \in {"in_progress", "failed"}))
    => /\ ret.kind = "value"
       /\ ret.contentToUse = session.content
       /\ ret.freshnessStatus = "missing"
       /\ ret.languageUsed = EffectiveOriginalOrEn

\* the fallback happened for a failed entry of a session whose original
\* language is undetermined
MissingFallsBackWitness ==
    /\ Resolved
    /\ HasCanonicalContent
    /\ RequestsOtherLanguage
    /\ HasEntry
    /\ EntryStatus = "failed"
    /\ Nullish(EffectiveOriginal)
    /\ ret.languageUsed = "en"
    /\ ret.freshnessStatus = "missing"

\* C2: a request for another language whose entry is stale gets that entry's
\* translatedContent, freshness "stale" and the requested language.
StaleServesAnyway ==
    (/\ Resolved
     /\ HasCanonicalContent
     /\ RequestsOtherLanguage
     /\ HasEntry
     /\ EntryStatus = "stale")
    => /\ ret.kind = "value"
       /\ ret.contentToUse = EntryContent
       /\ ret.contentToUse # session.content
       /\ ret.freshnessStatus = "stale"
       /\ ret.languageUsed = selectedLang

StaleServesAnywayWitness ==
    /\ Resolved
    /\ HasCanonicalContent
    /\ RequestsOtherLanguage
    /\ HasEntry
    /\ EntryStatus = "stale"
    /\ ret.freshnessStatus = "stale"
    /\ ret.contentToUse = "translated-payload-2"

\* C3: a request for another language whose entry is ready gets that entry's
\* translatedContent, freshness "ready" and the requested language.
ReadyPassesThrough ==
    (/\ Resolved
     /\ HasCanonicalContent
     /\ RequestsOtherLanguage
     /\ HasEntry
     /\ EntryStatus = "ready")
    => /\ ret.kind = "value"
       /\ ret.contentToUse = EntryContent
       /\ ret.freshnessStatus = "ready"
       /\ ret.languageUsed = selectedLang

ReadyPassesThroughWitness ==
    /\ Resolved
    /\ HasCanonicalContent
    /\ RequestsOtherLanguage
    /\ HasEntry
    /\ EntryStatus = "ready"
    /\ ret.freshnessStatus = "ready"
    /\ ret.languageUsed = "he"

\* C4: when the selector is undefined, null, "auto" or the effective original
\* language, the result is the canonical content with freshness "canonical",
\* whatever the translations map holds.
OriginalLanguageShortCircuit ==
    (/\ Resolved
     /\ HasCanonicalContent
     /\ (selectedLang \in {UNDEF, NULL, "auto"} \/ selectedLang = EffectiveOriginal))
    => /\ ret.kind = "value"
       /\ ret.freshnessStatus = "canonical"
       /\ ret.contentToUse = session.content

\* the original language was requested while the map holds a ready entry
\* keyed by it
OriginalLanguageShortCircuitWitness ==
    /\ Resolved
    /\ HasCanonicalContent
    /\ selectedLang = "he"
    /\ selectedLang = EffectiveOriginal
    /\ HasEntry
    /\ EntryStatus = "ready"
    /\ ret.freshnessStatus = "canonical"

\* C6: getResolvedContent never throws; it returns undefined or a record
\* with dir in rtl|ltr|auto, a freshness status of the enumeration and a
\* defined string as languageUsed.
NeverThrows ==
    Resolved
    => /\ ret.kind \in {"undefined", "value"}
       /\ ret.kind = "value"
          => /\ ret.dir \in {"rtl", "ltr", "auto"}
             /\ ret.freshnessStatus \in FreshnessStatus
             /\ ret.languageUsed \notin {UNDEF, NULL, THROW}

\* a content document with no metadata, no originalLanguage and no
\* translations was resolved for a language
NeverThrowsWitness ==
    /\ Resolved
    /\ HasCanonicalContent
    /\ ~session.content_metadata.present
    /\ ~session.translations.present
    /\ session.originalLanguage = UNDEF
    /\ selectedLang = "ar"
    /\ ret.kind = "value"

\* the language the selection is made for: the selector when it names a
\* language, else the effective original language
EffectiveRequested ==
    IF Truthy(selectedLang) /\ selectedLang # "auto" THEN selectedLang
    ELSE EffectiveOriginal

RequestedEntryContent ==
    session.translations.map[EffectiveRequested].translatedContent

\* C7: the content of a result is the whole canonical content or the whole
\* translatedContent of the requested language's entry; it is the
\* translation's exactly when the freshness is "ready" or "stale".
WholeDocumentSelection ==
    (Resolved /\ ret.kind = "value")
    => /\ ret.freshnessStatus \in {"ready", "stale"}
          => /\ session.translations.present
             /\ EffectiveRequested \in DOMAIN session.translations.map
             /\ ret.contentToUse = RequestedEntryContent
       /\ ret.freshnessStatus \in {"canonical", "missing"}
          => ret.contentToUse = session.content
       /\ (ret.contentToUse \in TranslatedPayloads)
             <=> (ret.freshnessStatus \in {"ready", "stale"})
       /\ (ret.contentToUse = session.content)
             <=> (ret.freshnessStatus \in {"canonical", "missing"})

\* an entry in progress exists for the requested language and the canonical
\* content was selected
WholeDocumentSelectionWitness ==
    /\ Resolved
    /\ ret.kind = "value"
    /\ RequestsOtherLanguage
    /\ HasEntry
    /\ EntryStatus = "in_progress"
    /\ ret.contentToUse = session.content

SelectorAbsentOrAuto == ~Truthy(selectedLang) \/ selectedLang = "auto"

AutoDetected ==
    /\ Nullish(session.originalLanguage)
    /\ session.content_metadata.present
    /\ session.content_metadata.output_language = "auto"
    /\ ~Nullish(session.content_metadata.detected_language)

\* C8: the original language in use is originalLanguage when present, else
\* detected_language when output_language is "auto", else output_language:
\* a request without a language, and every fallback, reports it as
\* languageUsed; with output_language "auto" and only a detected language D,
\* requesting "auto" or nothing reports D.
EffectiveOriginalLanguageUsed ==
    (Resolved /\ ret.kind = "value")
    => /\ (SelectorAbsentOrAuto \/ ret.freshnessStatus = "missing")
          => ret.languageUsed = EffectiveOriginalOrEn
       /\ (ret.freshnessStatus = "canonical") <=> (EffectiveRequested = EffectiveOriginal
                                                  \/ ~Truthy(EffectiveRequested))
       /\ (AutoDetected /\ selectedLang \in {"auto", UNDEF, NULL})
          => ret.languageUsed = session.content_metadata.detected_language

\* output_language is "auto", the detected language is "fr", there is no
\* originalLanguage, and "auto" was requested
EffectiveOriginalLanguageUsedWitness ==
    /\ Resolved
    /\ ret.kind = "value"
    /\ AutoDetected
    /\ selectedLang = "auto"
    /\ ret.languageUsed = "fr"

\* C9: in every branch dir is the direction of the effective requested
\* language: "rtl" for "ar" and "he", "auto" when it is absent or "auto",
\* "ltr" for every other code.
DirectionOfRequestedLanguage ==
    (Resolved /\ ret.kind = "value")
    => ret.dir = (IF EffectiveRequested \in {"ar", "he"} THEN "rtl"
                  ELSE IF ~Truthy(EffectiveRequested) \/ EffectiveRequested = "auto"
                       THEN "auto"
                       ELSE "ltr")

\* a right-to-left language was requested and the fallback was served
DirectionOfRequestedLanguageWitness ==
    /\ Resolved
    /\ ret.kind = "value"
    /\ selectedLang = "ar"
    /\ ret.freshnessStatus = "missing"
    /\ ret.dir = "rtl"

\* C10: getCanonicalContent returns session.content of a session document,
\* whatever its other fields hold, and undefined for null and undefined; it
\* leaves the session as it was.
CanonicalContentOnly ==
    /\ [](op = "getCanonicalContent"
          => /\ ret.kind # "throw"
             /\ ret.contentToUse =
                  (IF session.kind = "doc" THEN session.content ELSE UNDEF)
             /\ (ret.kind = "undefined") <=> (ret.contentToUse = UNDEF))
    /\ [][op' = "getCanonicalContent" => session' = session]_vars

\* the canonical content of a session with a ready translation was read
CanonicalContentOnlyWitness ==
    /\ op = "getCanonicalContent"
    /\ session.kind = "doc"
    /\ session.translations.present
    /\ "he" \in DOMAIN session.translations.map
    /\ session.translations.map["he"].status = "ready"
    /\ ret.contentToUse = CanonicalPayload

----------------------------------------------------------------------------
(* Specification of the accessors on documents that carry the revision     *)
(* and provenance fields: the same calls, on sessions with contentRevision, *)
(* contentFingerprint, updated_at and full translation entries.             *)

Revisions == {1, 2}
Fingerprints == {"abc", "def"}
Timestamps == {"2024-01-01T00:00:00Z", "2024-06-01T00:00:00Z"}

\* TranslationEntrySchema with all its fields
FullTranslationEntry ==
    [status : TranslationStatus, translatedContent : {"translated-payload-1"},
     translatedAt : Timestamps, sourceRevision : Revisions,
     sourceFingerprint : Fingerprints, model : {UNDEF, "model-1"},
     error : {UNDEF, "timeout"}]

FullTranslationMaps ==
    UNION {[keys -> FullTranslationEntry] : keys \in SUBSET {"he"}}

\* SessionContentDoc with all its fields; the original language is "en"
FullSessionContentDoc ==
    [kind : {"doc"}, content : {CanonicalPayload},
     content_metadata : {[present |-> TRUE, output_language |-> "en",
                          detected_language |-> UNDEF]},
     originalLanguage : {UNDEF},
     translations : [present : {TRUE}, map : FullTranslationMaps],
     contentRevision : Revisions, contentFingerprint : Fingerprints,
     updated_at : Timestamps]

InitTrust ==
    /\ session \in FullSessionContentDoc
    /\ selectedLang \in {UNDEF, "en", "he", "fr"}
    /\ op = "init"
    /\ ret = NotCalled
    /\ counters = NoCounters
    /\ updates = NoCounters
    /\ nEvents = 0
    /\ NoLogging

SpecTrust == InitTrust /\ [][NextResolve]_vars

\* s2 differs from s at most in contentRevision, contentFingerprint,
\* updated_at and in the entries' translatedAt, sourceRevision,
\* sourceFingerprint, model and error
DiffersOnlyInProvenance(s, s2) ==
    /\ s2.kind = s.kind
    /\ s2.content = s.content
    /\ s2.content_metadata = s.content_metadata
    /\ s2.originalLanguage = s.originalLanguage
    /\ s2.translations.present = s.translations.present
    /\ DOMAIN s2.translations.map = DOMAIN s.translations.map
    /\ \A k \in DOMAIN s.translations.map :
          /\ s2.translations.map[k].status = s.translations.map[k].status
          /\ s2.translations.map[k].translatedContent
               = s.translations.map[k].translatedContent

\* C11: the status of an entry is trusted: sessions that differ only in the
\* revision, fingerprint, timestamp, model and error fields resolve to the
\* same result for the same selector, and a ready entry whose sourceRevision
\* is lower than contentRevision is still served as "ready".
StatusIsTrusted ==
    Resolved
    => /\ \A s2 \in FullSessionContentDoc :
             DiffersOnlyInProvenance(session, s2)
             => getResolvedContent(s2, selectedLang) = ret
       /\ (/\ selectedLang = "he"
           /\ "he" \in DOMAIN session.translations.map
           /\ session.translations.map["he"].status = "ready")
          => ret.freshnessStatus = "ready"

\* a ready entry made from revision 1 was served for a session at revision 2
StatusIsTrustedWitness ==
    /\ Resolved
    /\ selectedLang = "he"
    /\ "he" \in DOMAIN session.translations.map
    /\ session.translations.map["he"].status = "ready"
    /\ session.translations.map["he"].sourceRevision = 1
    /\ session.contentRevision = 2
    /\ ret.freshnessStatus = "ready"

----------------------------------------------------------------------------
(* usage-logging/server.ts: counter updates                                 *)

\* a property value that the code reads as a number: absent, a number, or a
\* value of another type (typeof v # 'number')
NoNumber == [t |-> "undefined", n |-> 0]
Number(n) == [t |-> "number", n |-> n]
NotANumber == [t |-> "string", n |-> 0]

\* properties: Record<string, unknown> | undefined | null
NoProperties(k) ==
    [kind |-> k, recording_source |-> UNDEF, output_type |-> UNDEF,
     session_type |-> UNDEF, session_duration_ms |-> NoNumber,
     input_tokens |-> NoNumber, output_tokens |-> NoNumber, cost_usd |-> NoNumber]

\* properties?.<field>
Property(properties, field) ==
    IF properties.kind # "object" THEN UNDEF ELSE properties[field]

NumberProperty(properties, field) ==
    IF properties.kind # "object" THEN NoNumber ELSE properties[field]

\* updates.<field> = increment(n); the directive is modelled by its amount
Assign(u, field, n) ==
    [f \in DOMAIN u \cup {field} |-> IF f = field THEN n ELSE u[f]]

\* typeof v === 'number' && v > 0
\* variant: zero passes the test (v >= 0)
PositiveNumberOrZero(v) == v.t = "number" /\ v.n >= 0

PositiveNumber(v) == v.t = "number" /\ v.n > 0

SessionRecordingSource(u, recordingSource) ==
    IF recordingSource = "screen" THEN Assign(u, "sessions_screen", 1)
    ELSE IF recordingSource = "camera" THEN Assign(u, "sessions_camera", 1)
    ELSE u

\* variant: a teach_ai session is counted as a workflow session as well
SessionOutputTypeTeachAiAsWorkflow(u, outputType) ==
    IF outputType = "workflow" THEN Assign(u, "sessions_workflow", 1)
    ELSE IF outputType = "teach_ai"
    THEN Assign(Assign(u, "sessions_workflow", 1), "sessions_teach_ai", 1)
    ELSE u

SessionOutputType(u, outputType) ==
    IF outputType = "workflow" THEN Assign(u, "sessions_workflow", 1)
    ELSE IF outputType = "teach_ai" THEN Assign(u, "sessions_teach_ai", 1)
    ELSE u

\* variant: the legacy session_type is mapped whatever else is supplied
SessionLegacyFallbackUnguarded(u, recordingSource, outputType, legacySessionType) ==
    IF legacySessionType = "screen"
    THEN Assign(Assign(u, "sessions_screen", 1), "sessions_workflow", 1)
    ELSE IF legacySessionType = "camera"
    THEN Assign(Assign(u, "sessions_camera", 1), "sessions_workflow", 1)
    ELSE IF legacySessionType = "teach_ai"
    THEN Assign(Assign(u, "sessions_screen", 1), "sessions_teach_ai", 1)
    ELSE u

SessionLegacyFallback(u, recordingSource, outputType, legacySessionType) ==
    IF ~Truthy(recordingSource) /\ ~Truthy(outputType)
    THEN IF legacySessionType = "screen"
         THEN Assign(Assign(u, "sessions_screen", 1), "sessions_workflow", 1)
         ELSE IF legacySessionType = "camera"
         THEN Assign(Assign(u, "sessions_camera", 1), "sessions_workflow", 1)
         ELSE IF legacySessionType = "teach_ai"
         THEN Assign(Assign(u, "sessions_screen", 1), "sessions_teach_ai", 1)
         ELSE u
    ELSE u

\* variant: no default for the dimension that is not supplied
SessionDefensiveDefaultsOmitted(u, recordingSource, outputType) == u

SessionDefensiveDefaults(u, recordingSource, outputType) ==
    IF Truthy(recordingSource) /\ ~Truthy(outputType)
    THEN Assign(u, "sessions_workflow", 1)
    ELSE IF ~Truthy(recordingSource) /\ Truthy(outputType)
    THEN Assign(u, "sessions_screen", 1)
    ELSE u

SessionUpdates(properties) ==
    LET recordingSource == Property(properties, "recording_source")
        outputType == Property(properties, "output_type")
        legacySessionType == Property(properties, "session_type")
        u1 == Assign(NoCounters, "sessions_started", 1)
        u2 == SessionRecordingSource(u1, recordingSource)
        u3 == SessionOutputType(u2, outputType)
        u4 == SessionLegacyFallback(u3, recordingSource, outputType, legacySessionType)
    IN  SessionDefensiveDefaults(u4, recordingSource, outputType)

SessionCompleteUpdates(properties) ==
    LET durationMs == NumberProperty(properties, "session_duration_ms")
        u1 == Assign(NoCounters, "sessions_completed", 1)
    IN  IF PositiveNumber(durationMs)
        THEN Assign(u1, "total_session_duration_ms", durationMs.n)
        ELSE u1

\* variant: the token counts and the cost are added whenever they are numbers
VideoForgeUpdatesAnyNumber(properties) ==
    LET inputTokens == NumberProperty(properties, "input_tokens")
        outputTokens == NumberProperty(properties, "output_tokens")
        costUsd == NumberProperty(properties, "cost_usd")
        u1 == IF inputTokens.t = "number"
              THEN Assign(NoCounters, "video_forge_input_tokens", inputTokens.n)
              ELSE NoCounters
        u2 == IF outputTokens.t = "number"
              THEN Assign(u1, "video_forge_output_tokens", outputTokens.n)
              ELSE u1
    IN  IF costUsd.t = "number"
        THEN Assign(u2, "video_forge_cost_usd", costUsd.n)
        ELSE u2

VideoForgeUpdates(properties) ==
    LET inputTokens == NumberProperty(properties, "input_tokens")
        outputTokens == NumberProperty(properties, "output_tokens")
        costUsd == NumberProperty(properties, "cost_usd")
        u1 == IF PositiveNumber(inputTokens)
              THEN Assign(NoCounters, "video_forge_input_tokens", inputTokens.n)
              ELSE NoCounters
        u2 == IF PositiveNumber(outputTokens)
              THEN Assign(u1, "video_forge_output_tokens", outputTokens.n)
              ELSE u1
    IN  IF PositiveNumber(costUsd)
        THEN Assign(u2, "video_forge_cost_usd", costUsd.n)
        ELSE u2

\* variant: the MCP total is kept under a name of its own
McpUpdatesTotalRenamed(action) == Assign(Assign(NoCounters, action, 1), "mcp_calls", 1)

McpUpdates(action) == Assign(Assign(NoCounters, action, 1), "mcp_total", 1)

\* variant: an action without a case is counted under its own name
getCounterUpdatesCountingUnknown(action, properties) ==
    CASE action = "session" -> SessionUpdates(properties)
      [] action = "session_complete" -> SessionCompleteUpdates(properties)
      [] action = "workflow_edit" -> Assign(NoCounters, "workflow_edits", 1)
      [] action = "publish" -> Assign(NoCounters, "publishes", 1)
      [] action = "export" -> Assign(NoCounters, "exports", 1)
      [] action = "chatbot_message" -> Assign(NoCounters, "chatbot_messages", 1)
      [] action = "enrich_click" -> Assign(NoCounters, "enrich_clicks", 1)
      [] action = "daily_active_user" -> Assign(NoCounters, "unique_users", 1)
      [] action \in {"mcp_context_list", "mcp_context_get",
                     "mcp_context_search", "mcp_context_modify"} -> McpUpdates(action)
      [] action \in {"video_forge_analysis", "video_forge_augmentation"} ->
             VideoForgeUpdates(properties)
      [] OTHER -> Assign(NoCounters, action, 1)

getCounterUpdates(action, properties) ==
    CASE action = "session" -> SessionUpdates(properties)
      [] action = "session_complete" -> SessionCompleteUpdates(properties)
      [] action = "workflow_edit" -> Assign(NoCounters, "workflow_edits", 1)
      [] action = "publish" -> Assign(NoCounters, "publishes", 1)
      [] action = "export" -> Assign(NoCounters, "exports", 1)
      [] action = "chatbot_message" -> Assign(NoCounters, "chatbot_messages", 1)
      [] action = "enrich_click" -> Assign(NoCounters, "enrich_clicks", 1)
      [] action = "daily_active_user" -> Assign(NoCounters, "unique_users", 1)
      [] action \in {"mcp_context_list", "mcp_context_get",
                     "mcp_context_search", "mcp_context_modify"} -> McpUpdates(action)
      [] action \in {"video_forge_analysis", "video_forge_augmentation"} ->
             VideoForgeUpdates(properties)
      [] OTHER -> NoCounters

\* the value of a counter field of a counter document (an absent field is 0)
Counter(doc, field) == IF field \in DOMAIN doc THEN doc[field] ELSE 0

\* a merge write of increment directives: each named field grows by its amount
ApplyIncrements(doc, u) ==
    [f \in DOMAIN doc \cup DOMAIN u |->
        Counter(doc, f) + (IF f \in DOMAIN u THEN u[f] ELSE 0)]

----------------------------------------------------------------------------
(* Specification of the session counters: session events with any property *)
(* bag are applied, one after the other, to counters that start at zero.    *)

\* number of session events applied
MaxEvents == 3

\* values of the session properties: absent, the documented members, the
\* empty string and an unrecognised value
RecordingSources == {UNDEF, "screen", "camera", "", "microphone"}
OutputTypes == {UNDEF, "workflow", "teach_ai", "", "report"}
SessionTypes == {UNDEF, "screen", "camera", "teach_ai", "audio"}

SessionProperties ==
    {NoProperties("undefined"), NoProperties("null")} \cup
    [kind : {"object"}, recording_source : RecordingSources,
     output_type : OutputTypes, session_type : SessionTypes,
     session_duration_ms : {NoNumber}, input_tokens : {NoNumber},
     output_tokens : {NoNumber}, cost_usd : {NoNumber}]

InitCounters ==
    /\ session = NoDoc("undefined")
    /\ selectedLang = UNDEF
    /\ op = "init"
    /\ ret = NotCalled
    /\ counters = NoCounters
    /\ updates = NoCounters
    /\ nEvents = 0
    /\ NoLogging

LogSessionEvent ==
    /\ nEvents < MaxEvents
    /\ \E properties \in SessionProperties :
          /\ updates' = getCounterUpdates("session", properties)
          /\ counters' = ApplyIncrements(counters, updates')
    /\ nEvents' = nEvents + 1
    /\ UNCHANGED <<resolveVars, logVars>>

NextCounters == LogSessionEvent

SpecCounters == InitCounters /\ [][NextCounters]_vars

\* C5: after any sequence of session events applied to zeroed counters, the
\* recording-source family and the output-type family each sum to
\* sessions_started.
SessionFamiliesSumToStarted ==
    /\ Counter(counters, "sessions_screen") + Counter(counters, "sessions_camera")
         = Counter(counters, "sessions_started")
    /\ Counter(counters, "sessions_workflow") + Counter(counters, "sessions_teach_ai")
         = Counter(counters, "sessions_started")

----------------------------------------------------------------------------
(* usage-logging/constants.ts: the action lists                             *)

ADMIN_PANEL_ACTIONS ==
    <<"session", "session_complete", "workflow_edit", "publish", "unpublish",
      "export", "chatbot_message", "enrich_click", "daily_active_user">>

MCP_ACTIONS ==
    <<"mcp_context_list", "mcp_context_get", "mcp_context_search",
      "mcp_context_modify", "mcp_context_generate">>

VIDEO_FORGE_ACTIONS == <<"video_forge_analysis", "video_forge_augmentation">>

BILLING_ACTIONS ==
    <<"billing_page_viewed", "billing_plan_selected", "billing_checkout_started",
      "billing_checkout_completed", "billing_free_extension", "subscription_created",
      "subscription_updated", "subscription_canceled", "payment_succeeded",
      "payment_failed">>

ALL_ACTIONS ==
    ADMIN_PANEL_ACTIONS \o MCP_ACTIONS \o VIDEO_FORGE_ACTIONS \o BILLING_ACTIONS

\* the members of a list
Includes(list, a) == \E i \in DOMAIN list : list[i] = a

Members(list) == {list[i] : i \in DOMAIN list}

isValidAction(action) == Includes(ALL_ACTIONS, action)

isAdminPanelAction(action) == Includes(ADMIN_PANEL_ACTIONS, action)

isMcpAction(action) == Includes(MCP_ACTIONS, action)

isVideoForgeAction(action) == Includes(VIDEO_FORGE_ACTIONS, action)

isBillingAction(action) == Includes(BILLING_ACTIONS, action)

\* the answers of the five validation functions for one action
Validation(action) ==
    [kind |-> "validation",
     valid |-> isValidAction(action),
     adminPanel |-> isAdminPanelAction(action),
     mcp |-> isMcpAction(action),
     videoForge |-> isVideoForgeAction(action),
     billing |-> isBillingAction(action)]

ALL_COUNTER_FIELDS ==
    <<"sessions_started", "sessions_completed", "sessions_failed",
      "sessions_screen", "sessions_camera",
      "sessions_workflow", "sessions_teach_ai",
      "publishes", "unpublishes", "exports", "n8n_exports",
      "workflow_edits", "chatbot_messages", "enrich_clicks",
      "total_session_duration_ms", "unique_users",
      "mcp_context_list", "mcp_context_get", "mcp_context_search",
      "mcp_context_modify", "mcp_context_generate", "mcp_total",
      "video_forge_input_tokens", "video_forge_output_tokens",
      "video_forge_cost_usd",
      "active_subscriptions_individual", "active_subscriptions_business",
      "new_subscriptions", "canceled_subscriptions", "billing_page_views",
      "checkout_started", "checkout_completed", "free_extensions_claimed",
      "revenue_usd">>

----------------------------------------------------------------------------
(* Specification of the counter mapping: an action and a property bag are   *)
(* drawn in Init and getCounterUpdates is called once.                      *)

\* strings that are no action of any list
UnlistedActions == {"invalid_action", ""}

ActionInputs == Members(ALL_ACTIONS) \cup UnlistedActions

\* values of a property that is read as a number
NumberValues == {NoNumber, NotANumber, Number(-1), Number(0), Number(1), Number(5000)}

DurationProperties ==
    [kind : {"object"}, recording_source : {UNDEF}, output_type : {UNDEF},
     session_type : {UNDEF}, session_duration_ms : NumberValues,
     input_tokens : {NoNumber}, output_tokens : {NoNumber}, cost_usd : {NoNumber}]

TokenProperties ==
    [kind : {"object"}, recording_source : {UNDEF}, output_type : {UNDEF},
     session_type : {UNDEF}, session_duration_ms : {NoNumber},
     input_tokens : NumberValues, output_tokens : NumberValues,
     cost_usd : NumberValues]

PropertyBags == SessionProperties \cup DurationProperties \cup TokenProperties

InitMapping ==
    /\ session = NoDoc("undefined")
    /\ selectedLang = UNDEF
    /\ op = "init"
    /\ ret = NotCalled
    /\ counters = NoCounters
    /\ updates = NoCounters
    /\ nEvents = 0
    /\ event \in [action : ActionInputs, properties : PropertyBags]
    /\ calls = <<>>
    /\ store = <<>>
    /\ eventDocs = {}

CallGetCounterUpdates ==
    /\ op = "init"
    /\ op' = "getCounterUpdates"
    /\ updates' = getCounterUpdates(event.action, event.properties)
    /\ counters' = ApplyIncrements(counters, updates')
    /\ nEvents' = nEvents + 1
    /\ UNCHANGED <<session, selectedLang, ret, event, calls, store, eventDocs>>

\* the validation functions of constants.ts applied to the drawn action
CallIsValidAction ==
    /\ op = "init"
    /\ op' = "isValidAction"
    /\ ret' = Validation(event.action)
    /\ UNCHANGED <<session, selectedLang, counterVars, logVars>>

NextMapping == CallGetCounterUpdates \/ CallIsValidAction

SpecMapping == InitMapping /\ [][NextMapping]_vars

Mapped == op = "getCounterUpdates"

\* the case labels of the switch of getCounterUpdates
ActionsWithCase ==
    {"session", "session_complete", "workflow_edit", "publish", "export",
     "chatbot_message", "enrich_click", "daily_active_user", "mcp_context_list",
     "mcp_context_get", "mcp_context_search", "mcp_context_modify",
     "video_forge_analysis", "video_forge_augmentation"}

\* C12: an action that has no case gets the empty mapping for every property
\* bag: no increment directive is made and no counter changes.
UnknownActionMapsToNothing ==
    (Mapped /\ event.action \notin ActionsWithCase)
    => /\ updates = NoCounters
       /\ counters = NoCounters

\* an unlisted action was mapped with token properties that are positive
UnknownActionMapsToNothingWitness ==
    /\ Mapped
    /\ event.action = "invalid_action"
    /\ event.properties.kind = "object"
    /\ event.properties.input_tokens = Number(5000)
    /\ updates = NoCounters

SessionMapped == Mapped /\ event.action = "session"

\* the values of the session properties as getCounterUpdates reads them
SuppliedRecordingSource == Property(event.properties, "recording_source")
SuppliedOutputType == Property(event.properties, "output_type")
SuppliedSessionType == Property(event.properties, "session_type")

\* the mapping that holds exactly the given fields, each as increment(1)
OneEach(fields) == [f \in fields |-> 1]

\* C13: a session event that supplies one dimension only gets the baseline
\* member of the other: sessions_workflow when only recording_source is
\* supplied, sessions_screen when only output_type is, so that each family
\* holds exactly one increment next to sessions_started.
MissingDimensionDefaults ==
    SessionMapped
    => /\ (Truthy(SuppliedRecordingSource) /\ ~Truthy(SuppliedOutputType))
          => /\ Counter(updates, "sessions_workflow") = 1
             /\ "sessions_teach_ai" \notin DOMAIN updates
       /\ (~Truthy(SuppliedRecordingSource) /\ Truthy(SuppliedOutputType))
          => /\ Counter(updates, "sessions_screen") = 1
             /\ "sessions_camera" \notin DOMAIN updates
       /\ (SuppliedRecordingSource \in {"screen", "camera"} /\ ~Truthy(SuppliedOutputType))
          => updates = OneEach({"sessions_started", "sessions_workflow",
                                IF SuppliedRecordingSource = "screen"
                                THEN "sessions_screen" ELSE "sessions_camera"})
       /\ (~Truthy(SuppliedRecordingSource) /\ SuppliedOutputType \in {"workflow", "teach_ai"})
          => updates = OneEach({"sessions_started", "sessions_screen",
                                IF SuppliedOutputType = "workflow"
                                THEN "sessions_workflow" ELSE "sessions_teach_ai"})

\* only the recording source "camera" was supplied, with a legacy type
MissingDimensionDefaultsWitness ==
    /\ SessionMapped
    /\ SuppliedRecordingSource = "camera"
    /\ SuppliedOutputType = UNDEF
    /\ SuppliedSessionType = "teach_ai"
    /\ updates = OneEach({"sessions_started", "sessions_camera", "sessions_workflow"})

\* C14: with neither dimension supplied the legacy session_type is mapped on
\* both families (screen: screen and workflow, camera: camera and workflow,
\* teach_ai: screen and teach_ai); with a dimension supplied the mapping
\* does not depend on session_type.
LegacySessionTypeMapping ==
    SessionMapped
    => /\ (~Truthy(SuppliedRecordingSource) /\ ~Truthy(SuppliedOutputType))
          => /\ SuppliedSessionType = "screen"
                => updates = OneEach({"sessions_started", "sessions_screen",
                                      "sessions_workflow"})
             /\ SuppliedSessionType = "camera"
                => updates = OneEach({"sessions_started", "sessions_camera",
                                      "sessions_workflow"})
             /\ SuppliedSessionType = "teach_ai"
                => updates = OneEach({"sessions_started", "sessions_screen",
                                      "sessions_teach_ai"})
       /\ (Truthy(SuppliedRecordingSource) \/ Truthy(SuppliedOutputType))
          => \A legacy \in SessionTypes :
                getCounterUpdates("session",
                                  [event.properties EXCEPT !.session_type = legacy])
                  = updates

\* a legacy "teach_ai" event was mapped
LegacySessionTypeMappingWitness ==
    /\ SessionMapped
    /\ ~Truthy(SuppliedRecordingSource)
    /\ ~Truthy(SuppliedOutputType)
    /\ SuppliedSessionType = "teach_ai"
    /\ updates = OneEach({"sessions_started", "sessions_screen", "sessions_teach_ai"})

\* the fields that accumulate a supplied value, with the property they add
AccumulatingFields ==
    {"total_session_duration_ms", "video_forge_input_tokens",
     "video_forge_output_tokens", "video_forge_cost_usd"}

AccumulatedProperty(field) ==
    CASE field = "total_session_duration_ms" -> "session_duration_ms"
      [] field = "video_forge_input_tokens" -> "input_tokens"
      [] field = "video_forge_output_tokens" -> "output_tokens"
      [] field = "video_forge_cost_usd" -> "cost_usd"

AccumulatingAction(field) ==
    IF field = "total_session_duration_ms" THEN {"session_complete"}
    ELSE {"video_forge_analysis", "video_forge_augmentation"}

SuppliedNumber(field) == NumberProperty(event.properties, AccumulatedProperty(field))

\* C15: every directive is increment(1), except the duration, token and cost
\* fields, which add the supplied value and are present exactly when that
\* value is a number greater than 0; sessions_completed is incremented by 1
\* whatever the duration.
IncrementAmounts ==
    Mapped
    => /\ \A f \in DOMAIN updates : f \notin AccumulatingFields => updates[f] = 1
       /\ \A f \in AccumulatingFields :
             /\ (f \in DOMAIN updates)
                  <=> /\ event.action \in AccumulatingAction(f)
                      /\ SuppliedNumber(f).t = "number"
                      /\ SuppliedNumber(f).n > 0
             /\ (f \in DOMAIN updates) => updates[f] = SuppliedNumber(f).n
       /\ event.action = "session_complete" => Counter(updates, "sessions_completed") = 1

\* a session_complete event with duration 0 was mapped
IncrementAmountsWitness ==
    /\ Mapped
    /\ event.action = "session_complete"
    /\ event.properties.kind = "object"
    /\ event.properties.session_duration_ms = Number(0)
    /\ updates = OneEach({"sessions_completed"})

\* C16: every action of MCP_ACTIONS gets a mapping that holds the counter
\* named after the action and mcp_total, each as increment(1).
McpActionsIncrementTotal ==
    (Mapped /\ Includes(MCP_ACTIONS, event.action))
    => updates = OneEach({event.action, "mcp_total"})

\* the counter each admin panel action is documented to increment
OwnCounter(action) ==
    CASE action = "session" -> "sessions_started"
      [] action = "session_complete" -> "sessions_completed"
      [] action = "workflow_edit" -> "workflow_edits"
      [] action = "publish" -> "publishes"
      [] action = "unpublish" -> "unpublishes"
      [] action = "export" -> "exports"
      [] action = "chatbot_message" -> "chatbot_messages"
      [] action = "enrich_click" -> "enrich_clicks"
      [] action = "daily_active_user" -> "unique_users"

\* C17: every action of ADMIN_PANEL_ACTIONS gets a non-empty mapping that
\* increments the action's own counter by 1, for any property bag.
AdminActionsIncrementOwnCounter ==
    (Mapped /\ Includes(ADMIN_PANEL_ACTIONS, event.action))
    => /\ updates # NoCounters
       /\ Counter(updates, OwnCounter(event.action)) = 1

----------------------------------------------------------------------------
(* usage-logging/constants.ts: Firestore paths                              *)

USAGE_PATHS_EVENTS_DATA == "usage/events/data"
USAGE_PATHS_COUNTERS_GLOBAL_TOTALS == "usage/counters/global/totals"
USAGE_PATHS_COUNTERS_DAILY == "usage/counters/daily"
USAGE_PATHS_COUNTERS_ORGS_SUBCOLLECTION == "orgs"

getDailyCounterPath(periodId) == USAGE_PATHS_COUNTERS_DAILY \o "/" \o periodId

getOrgCounterPath(periodId, orgId) ==
    USAGE_PATHS_COUNTERS_DAILY \o "/" \o periodId \o "/"
        \o USAGE_PATHS_COUNTERS_ORGS_SUBCOLLECTION \o "/" \o orgId

----------------------------------------------------------------------------
(* usage-logging/server.ts: logUsageEvent, logMcpUsage, createLogContextList *)

\* String(n).padStart(2, '0')
PadStart2(n) == IF n < 10 THEN "0" \o ToString(n) ELSE ToString(n)

\* date: the UTC year, month (0 to 11) and day of the clock
getDailyPeriodId(date) ==
    ToString(date.year) \o "-" \o PadStart2(date.month + 1) \o "-" \o PadStart2(date.day)

\* a fresh uuid for each call: the calls are numbered
generateEventId(c) == "evt_" \o ToString(c)

\* the paths as logUsageEvent writes them
EventsCollectionPath == "usage/events/data"
GlobalTotalsPath == "usage/counters/global/totals"
DailyPath(periodId) == "usage/counters/daily/" \o periodId

\* variant: the per-org document is written under "org" instead of "orgs"
OrgPathMisspelled(periodId, orgId) ==
    "usage/counters/daily/" \o periodId \o "/org/" \o orgId

OrgPath(periodId, orgId) ==
    "usage/counters/daily/" \o periodId \o "/orgs/" \o orgId

SERVER_TIMESTAMP == "serverTimestamp"

\* the properties with the undefined values removed, null when none is left;
\* otherProperties are the names of the defined properties that
\* getCounterUpdates does not read
CleanProperties(options) ==
    IF options.properties.kind # "object" THEN NULL
    ELSE IF options.properties = NoProperties("object") /\ options.otherProperties = {}
         THEN NULL
         ELSE "properties"

EventData(options, eventId, periodId) ==
    [action |-> options.action,
     timestamp |-> SERVER_TIMESTAMP,
     user_email |-> IF Truthy(options.userEmail) THEN options.userEmail ELSE options.userId,
     org_id |-> options.orgId,
     service |-> options.service,
     event_id |-> eventId,
     user_id |-> options.userId,
     component |-> IF Truthy(options.component) THEN options.component ELSE NULL,
     properties |-> CleanProperties(options),
     period_id |-> periodId]

\* the data of the three counter writes

\* variant: the counter updates are left out of the daily write
DailyDataWithoutUpdates(counterUpdates, periodId) ==
    [counters |-> NoCounters, period_id |-> periodId, org_id |-> UNDEF,
     last_updated |-> SERVER_TIMESTAMP]

GlobalTotalsData(counterUpdates) ==
    [counters |-> counterUpdates, period_id |-> UNDEF, org_id |-> UNDEF,
     last_updated |-> SERVER_TIMESTAMP]

DailyData(counterUpdates, periodId) ==
    [counters |-> counterUpdates, period_id |-> periodId, org_id |-> UNDEF,
     last_updated |-> SERVER_TIMESTAMP]

OrgData(counterUpdates, periodId, orgId) ==
    [counters |-> counterUpdates, period_id |-> periodId, org_id |-> orgId,
     last_updated |-> SERVER_TIMESTAMP]

\* a document that does not exist yet
NoDocument ==
    [counters |-> NoCounters, period_id |-> UNDEF, org_id |-> UNDEF,
     last_updated |-> UNDEF]

DocumentAt(st, path) == IF path \in DOMAIN st THEN st[path] ELSE NoDocument

\* variant: a merge that stores the amounts instead of adding them, as a
\* write of values computed from counters read earlier would
SetDocumentMergeStoringAmounts(st, path, data) ==
    LET old == DocumentAt(st, path)
        new == [counters |-> [f \in DOMAIN old.counters \cup DOMAIN data.counters |->
                                IF f \in DOMAIN data.counters THEN data.counters[f]
                                ELSE old.counters[f]],
                period_id |-> IF data.period_id = UNDEF THEN old.period_id
                              ELSE data.period_id,
                org_id |-> IF data.org_id = UNDEF THEN old.org_id ELSE data.org_id,
                last_updated |-> data.last_updated]
    IN  [q \in DOMAIN st \cup {path} |-> IF q = path THEN new ELSE st[q]]

\* setDocumentMerge: the increment directives are added, the other fields of
\* the data replace the stored ones, fields the data lacks are kept
SetDocumentMerge(st, path, data) ==
    LET old == DocumentAt(st, path)
        new == [counters |-> ApplyIncrements(old.counters, data.counters),
                period_id |-> IF data.period_id = UNDEF THEN old.period_id
                              ELSE data.period_id,
                org_id |-> IF data.org_id = UNDEF THEN old.org_id ELSE data.org_id,
                last_updated |-> data.last_updated]
    IN  [q \in DOMAIN st \cup {path} |-> IF q = path THEN new ELSE st[q]]

\* variant: a rejection of logUsageEvent is passed on to the caller
logMcpUsageRethrowing(usage) ==
    IF usage = "pending" THEN "pending"
    ELSE IF usage = "rejected" THEN "rejected"
    ELSE "resolved"

\* the promise of logMcpUsage, from the promise of the logUsageEvent call it
\* awaits inside try/catch
logMcpUsage(usage) ==
    IF usage = "pending" THEN "pending" ELSE "resolved"

\* the options logMcpUsage passes on: { ...options, service: 'flingoos-mcp' }
McpOptions(options) == [options EXCEPT !.service = "flingoos-mcp"]

----------------------------------------------------------------------------
(* Specification of the logging calls: up to MaxCalls calls of              *)
(* logUsageEvent, made directly or through a logger of                      *)
(* createLogContextList, whose steps interleave; any Firestore operation    *)
(* may fail.                                                                *)

MaxCalls == 2

CallIds == 1 .. MaxCalls

OrgIds == {"org-a", "org-b"}

\* the clock at the time of a call
Dates == {[year |-> 2024, month |-> 0, day |-> 9],
          [year |-> 2024, month |-> 11, day |-> 31]}

\* a session event logged by the admin panel
SessionOptions ==
    [entry : {"logUsageEvent"}, action : {"session"},
     properties : {[NoProperties("object") EXCEPT !.recording_source = "screen",
                                                   !.output_type = "workflow"]},
     otherProperties : {{}},
     userId : {"user-1"}, userEmail : {"user@example.com"}, orgId : OrgIds,
     service : {"admin-panel"}, component : {UNDEF}]

\* the options logContextList builds
ContextListOptions ==
    [entry : {"logContextList"}, action : {"mcp_context_list"},
     properties : {NoProperties("object")},
     otherProperties : {{"scope", "results_count"}},
     userId : {"user-1"}, userEmail : {UNDEF}, orgId : OrgIds,
     service : {UNDEF}, component : {"context-list"}]

LogOptions == SessionOptions \cup ContextListOptions

\* no result has been returned
NoCallResult == [success |-> FALSE, event_id |-> UNDEF, period_id |-> UNDEF]

IdleCall ==
    [pc |-> "idle", entry |-> UNDEF, options |-> UNDEF, periodId |-> UNDEF,
     eventId |-> UNDEF, counterUpdates |-> NoCounters, writes |-> <<>>,
     usage |-> "none", mcp |-> "none", handler |-> "none", result |-> NoCallResult]

InitLog ==
    /\ session = NoDoc("undefined")
    /\ selectedLang = UNDEF
    /\ op = "init"
    /\ ret = NotCalled
    /\ counters = NoCounters
    /\ updates = NoCounters
    /\ nEvents = 0
    /\ event = NoEvent
    /\ calls = [c \in CallIds |-> IdleCall]
    /\ store = [q \in {} |-> NoDocument]
    /\ eventDocs = {}

Write(path, data) == [path |-> path, data |-> data]

\* a call begins: logUsageEvent reads the clock and makes the event id; the
\* logger of createLogContextList returns to the tool handler at once
Invoke(c) ==
    /\ calls[c].pc = "idle"
    /\ \A b \in CallIds : b < c => calls[b].pc # "idle"
    /\ \E o \in LogOptions, date \in Dates :
          calls' = [calls EXCEPT ![c] =
                      [IdleCall EXCEPT
                         !.pc = "serverTimestamp",
                         !.entry = o.entry,
                         !.options = IF o.entry = "logContextList"
                                     THEN McpOptions(o) ELSE o,
                         !.periodId = getDailyPeriodId(date),
                         !.eventId = generateEventId(c),
                         !.usage = "pending",
                         !.mcp = IF o.entry = "logContextList"
                                 THEN logMcpUsage("pending") ELSE "none",
                         !.handler = IF o.entry = "logContextList"
                                     THEN "returned" ELSE "none"]]
    /\ UNCHANGED <<resolveVars, counterVars, event, store, eventDocs>>

ServerTimestamp(c) ==
    /\ calls[c].pc = "serverTimestamp"
    /\ calls' = [calls EXCEPT ![c].pc = "addDocument"]
    /\ UNCHANGED <<resolveVars, counterVars, event, store, eventDocs>>

AddDocument(c) ==
    /\ calls[c].pc = "addDocument"
    /\ LET data == EventData(calls[c].options, calls[c].eventId, calls[c].periodId)
       IN  /\ eventDocs' = eventDocs \cup {data}
           /\ calls' = [calls EXCEPT
                          ![c].pc = "getCounterUpdates",
                          ![c].writes = Append(@, Write(EventsCollectionPath, data))]
    /\ UNCHANGED <<resolveVars, counterVars, event, store>>

GetCounterUpdates(c) ==
    /\ calls[c].pc = "getCounterUpdates"
    /\ calls' = [calls EXCEPT
                   ![c].pc = "globalTotals",
                   ![c].counterUpdates =
                       getCounterUpdates(calls[c].options.action,
                                         calls[c].options.properties)]
    /\ UNCHANGED <<resolveVars, counterVars, event, store, eventDocs>>

MergeGlobalTotals(c) ==
    /\ calls[c].pc = "globalTotals"
    /\ LET data == GlobalTotalsData(calls[c].counterUpdates)
       IN  /\ store' = SetDocumentMerge(store, GlobalTotalsPath, data)
           /\ calls' = [calls EXCEPT
                          ![c].pc = "daily",
                          ![c].writes = Append(@, Write(GlobalTotalsPath, data))]
    /\ UNCHANGED <<resolveVars, counterVars, event, eventDocs>>

MergeDaily(c) ==
    /\ calls[c].pc = "daily"
    /\ LET data == DailyData(calls[c].counterUpdates, calls[c].periodId)
           path == DailyPath(calls[c].periodId)
       IN  /\ store' = SetDocumentMerge(store, path, data)
           /\ calls' = [calls EXCEPT
                          ![c].pc = "org",
                          ![c].writes = Append(@, Write(path, data))]
    /\ UNCHANGED <<resolveVars, counterVars, event, eventDocs>>

\* the last write; logUsageEvent returns its result, logMcpUsage resolves
MergeOrg(c) ==
    /\ calls[c].pc = "org"
    /\ LET data == OrgData(calls[c].counterUpdates, calls[c].periodId,
                           calls[c].options.orgId)
           path == OrgPath(calls[c].periodId, calls[c].options.orgId)
       IN  /\ store' = SetDocumentMerge(store, path, data)
           /\ calls' = [calls EXCEPT
                          ![c].pc = "done",
                          ![c].writes = Append(@, Write(path, data)),
                          ![c].usage = "fulfilled",
                          ![c].result = [success |-> TRUE,
                                         event_id |-> calls[c].eventId,
                                         period_id |-> calls[c].periodId],
                          ![c].mcp = IF calls[c].entry = "logContextList"
                                     THEN logMcpUsage("fulfilled") ELSE "none"]
    /\ UNCHANGED <<resolveVars, counterVars, event, eventDocs>>

RunningSteps ==
    {"serverTimestamp", "addDocument", "getCounterUpdates", "globalTotals",
     "daily", "org"}

\* the step that follows a step of logUsageEvent
StepAfter(pc) ==
    CASE pc = "serverTimestamp" -> "addDocument"
      [] pc = "addDocument" -> "getCounterUpdates"
      [] pc = "getCounterUpdates" -> "globalTotals"
      [] pc = "globalTotals" -> "daily"
      [] pc = "daily" -> "org"
      [] pc = "org" -> "done"

\* variant: a failed operation is ignored and the call goes on with the
\* next step
FailIgnored(c) ==
    /\ calls[c].pc \in RunningSteps
    /\ calls' = [calls EXCEPT
                   ![c].pc = StepAfter(calls[c].pc),
                   ![c].usage = IF calls[c].pc = "org" THEN "fulfilled" ELSE @,
                   ![c].result = IF calls[c].pc = "org"
                                 THEN [success |-> TRUE,
                                       event_id |-> calls[c].eventId,
                                       period_id |-> calls[c].periodId]
                                 ELSE @,
                   ![c].mcp = IF calls[c].entry = "logContextList" /\ calls[c].pc = "org"
                              THEN "resolved" ELSE @]
    /\ UNCHANGED <<resolveVars, counterVars, event, store, eventDocs>>

\* the Firestore operation of the current step fails: logUsageEvent rejects
\* without making the write; logMcpUsage catches the rejection
Fail(c) ==
    /\ calls[c].pc \in RunningSteps
    /\ calls' = [calls EXCEPT
                   ![c].pc = "failed",
                   ![c].usage = "rejected",
                   ![c].mcp = IF calls[c].entry = "logContextList"
                              THEN logMcpUsage("rejected") ELSE "none"]
    /\ UNCHANGED <<resolveVars, counterVars, event, store, eventDocs>>

NextLog ==
    \E c \in CallIds :
        \/ Invoke(c)
        \/ ServerTimestamp(c)
        \/ AddDocument(c)
        \/ GetCounterUpdates(c)
        \/ MergeGlobalTotals(c)
        \/ MergeDaily(c)
        \/ MergeOrg(c)
        \/ Fail(c)

SpecLog == InitLog /\ [][NextLog]_vars

----------------------------------------------------------------------------
(* Claims about the logging calls                                           *)

Started(c) == calls[c].pc # "idle"

CounterPathsOf(c) ==
    {"usage/counters/global/totals",
     "usage/counters/daily/" \o calls[c].periodId,
     "usage/counters/daily/" \o calls[c].periodId \o "/orgs/" \o calls[c].options.orgId}

\* the counter documents that have received the increments of call c
CounterDocumentsWritten(c) ==
    {q \in CounterPathsOf(c) :
        \E i \in 1 .. Len(calls[c].writes) : calls[c].writes[i].path = q}

\* C18: in every reachable state, either all three counter documents (global
\* totals, daily, daily per-org) have received the increments of an event or
\* none of them has.
CounterWritesAllOrNone ==
    \A c \in CallIds :
        Started(c) => Cardinality(CounterDocumentsWritten(c)) \in {0, 3}

ThroughLogger(c) == Started(c) /\ calls[c].entry = "logContextList"

EventsWritten(c) ==
    {calls[c].writes[i].data : i \in
        {j \in 1 .. Len(calls[c].writes) : calls[c].writes[j].path = "usage/events/data"}}

\* C19: whichever Firestore operation fails, the promise of logMcpUsage is
\* never rejected, the logger has returned to the tool handler, and every
\* event the call logged carries the service 'flingoos-mcp'.
McpLoggingNeverThrows ==
    \A c \in CallIds :
        ThroughLogger(c) =>
            /\ calls[c].mcp \in {"pending", "resolved"}
            /\ (calls[c].usage # "pending" => calls[c].mcp = "resolved")
            /\ calls[c].handler = "returned"
            /\ \A e \in EventsWritten(c) : e.service = "flingoos-mcp"
            /\ \A e \in eventDocs :
                  e.event_id = calls[c].eventId => e.service = "flingoos-mcp"

\* a logger call whose daily write failed after the event and the global
\* totals were written: logUsageEvent rejected, logMcpUsage resolved
McpLoggingNeverThrowsWitness ==
    \E c \in CallIds :
        /\ ThroughLogger(c)
        /\ calls[c].usage = "rejected"
        /\ calls[c].mcp = "resolved"
        /\ Len(calls[c].writes) = 2
        /\ EventsWritten(c) # {}

Succeeded(c) == calls[c].usage = "fulfilled"

\* C20: a successful logUsageEvent call has written exactly four documents:
\* the event at 'usage/events/data', then the same counter updates at the
\* global totals path, at getDailyCounterPath(periodId) and at
\* getOrgCounterPath(periodId, orgId), where periodId is the period id stored
\* in the event and returned by the call; the two helpers build
\* 'usage/counters/daily/' + p and 'usage/counters/daily/' + p + '/orgs/' + o.
FourDocumentsAtDocumentedPaths ==
    \A c \in CallIds :
        Succeeded(c) =>
            LET w == calls[c].writes
                p == calls[c].result.period_id
                o == calls[c].options.orgId
            IN  /\ Len(w) = 4
                /\ w[1].path = USAGE_PATHS_EVENTS_DATA
                /\ w[1].path = "usage/events/data"
                /\ w[1].data.period_id = p
                /\ w[1].data \in eventDocs
                /\ w[2].path = USAGE_PATHS_COUNTERS_GLOBAL_TOTALS
                /\ w[3].path = getDailyCounterPath(p)
                /\ w[4].path = getOrgCounterPath(p, o)
                /\ getDailyCounterPath(p) = "usage/counters/daily/" \o p
                /\ getOrgCounterPath(p, o) =
                      "usage/counters/daily/" \o p \o "/orgs/" \o o
                /\ w[2].data.counters = w[3].data.counters
                /\ w[3].data.counters = w[4].data.counters
                /\ w[2].data.counters =
                      getCounterUpdates(calls[c].options.action,
                                        calls[c].options.properties)
                /\ \A q \in {w[2].path, w[3].path, w[4].path} : q \in DOMAIN store

\* two successful calls of different organisations on different days
FourDocumentsAtDocumentedPathsWitness ==
    \E c, d \in CallIds :
        /\ Succeeded(c) /\ Succeeded(d)
        /\ calls[c].options.orgId # calls[d].options.orgId
        /\ calls[c].result.period_id # calls[d].result.period_id
        /\ calls[c].writes[2].data.counters # NoCounters

----------------------------------------------------------------------------
(* Claims about the action lists and the counter field list                 *)

Validated == op = "isValidAction"

Disjoint(l1, l2) == Members(l1) \cap Members(l2) = {}

\* C21: ALL_ACTIONS is exactly the admin panel, MCP and Video Forge actions:
\* its length is the sum of the three lengths, an action is valid if and only
\* if it is an admin panel, MCP or Video Forge action, and the three families
\* are pairwise disjoint.
AllActionsAreThreeFamilies ==
    /\ Len(ALL_ACTIONS) =
          Len(ADMIN_PANEL_ACTIONS) + Len(MCP_ACTIONS) + Len(VIDEO_FORGE_ACTIONS)
    /\ Validated => (ret.valid <=> (ret.adminPanel \/ ret.mcp \/ ret.videoForge))
    /\ Disjoint(ADMIN_PANEL_ACTIONS, MCP_ACTIONS)
    /\ Disjoint(ADMIN_PANEL_ACTIONS, VIDEO_FORGE_ACTIONS)
    /\ Disjoint(MCP_ACTIONS, VIDEO_FORGE_ACTIONS)

\* C22: every key of the mapping returned by getCounterUpdates, and so every
\* field of the counter document the mapping is applied to, is a member of
\* ALL_COUNTER_FIELDS.
CounterFieldsAreListed ==
    Mapped =>
        /\ \A f \in DOMAIN updates : Includes(ALL_COUNTER_FIELDS, f)
        /\ \A f \in DOMAIN counters : Includes(ALL_COUNTER_FIELDS, f)

\* an MCP call: two fields of the list are created
CounterFieldsAreListedWitness ==
    /\ Mapped
    /\ isMcpAction(event.action)
    /\ DOMAIN counters = {event.action, "mcp_total"}

----------------------------------------------------------------------------
(* Order of the writes of logUsageEvent                                     *)

\* the paths a call writes, in the order of the code
WriteOrder(c) ==
    <<"usage/events/data",
      "usage/counters/global/totals",
      "usage/counters/daily/" \o calls[c].periodId,
      "usage/counters/daily/" \o calls[c].periodId \o "/orgs/" \o calls[c].options.orgId>>

WritesArePrefixOfOrder(c) ==
    /\ Len(calls[c].writes) <= 4
    /\ \A i \in 1 .. Len(calls[c].writes) : calls[c].writes[i].path = WriteOrder(c)[i]

Rejected(c) == calls[c].usage = "rejected"

\* C23: the writes of a call are issued in the order event document, global
\* totals, daily counter, per-org counter, one after the other; a call that
\* failed issues no further write and returns no success result; a success
\* result is returned only after all four writes.
WritesStrictlyOrdered ==
    /\ [](\A c \in CallIds :
            Started(c) =>
                /\ WritesArePrefixOfOrder(c)
                /\ (Rejected(c) => calls[c].result = NoCallResult)
                /\ (calls[c].result # NoCallResult => Len(calls[c].writes) = 4))
    /\ [][\A c \in CallIds :
            /\ Started(c) =>
                  \/ calls'[c].writes = calls[c].writes
                  \/ /\ Len(calls[c].writes) < 4
                     /\ calls'[c].writes =
                           Append(calls[c].writes,
                                  calls'[c].writes[Len(calls[c].writes) + 1])
            /\ Rejected(c) => calls'[c] = calls[c]]_vars

\* a direct call whose daily write failed after the event and the global
\* totals had been written
WritesStrictlyOrderedWitness ==
    \E c \in CallIds :
        /\ Started(c)
        /\ calls[c].entry = "logUsageEvent"
        /\ Rejected(c)
        /\ Len(calls[c].writes) = 2
        /\ "usage/counters/global/totals" \in DOMAIN store

----------------------------------------------------------------------------
(* Consistency of the fields of a result, and of the two accessors          *)

\* the text direction of a language code, as the design states it
DirectionOf(language) ==
    IF language \in {"ar", "he"} THEN "rtl"
    ELSE IF ~Truthy(language) \/ language = "auto" THEN "auto"
    ELSE "ltr"

HasResult == Resolved /\ ret.kind = "value"

\* C24 as stated: in every result dir is the direction of languageUsed, and
\* a fallback to canonical content for a requested right-to-left language
\* does not carry "rtl".
DirectionOfLanguageUsed ==
    HasResult
    => /\ ret.dir = DirectionOf(ret.languageUsed)
       /\ (ret.freshnessStatus = "missing" /\ selectedLang \in {"ar", "he"})
          => ret.dir # "rtl"

\* C24 amended: dir is the direction of languageUsed in every ready and stale
\* result and in every canonical result of a session whose original language
\* is determined; in a missing result dir is the direction of the requested
\* language, whatever the language of the canonical content served.
DirectionOfLanguageServed ==
    HasResult
    => /\ ret.freshnessStatus \in {"ready", "stale"}
          => ret.dir = DirectionOf(ret.languageUsed)
       /\ (ret.freshnessStatus = "canonical" /\ ~Nullish(EffectiveOriginal))
          => ret.dir = DirectionOf(ret.languageUsed)
       /\ ret.freshnessStatus = "missing"
          => ret.dir = DirectionOf(selectedLang)

\* Hebrew was requested from an English session without a usable
\* translation: English content is served with the direction "rtl"
DirectionOfLanguageServedWitness ==
    /\ HasResult
    /\ selectedLang = "he"
    /\ EffectiveOriginal = "en"
    /\ ret.freshnessStatus = "missing"
    /\ ret.languageUsed = "en"
    /\ ret.contentToUse = session.content
    /\ ret.dir = "rtl"

\* getCanonicalContent returns undefined: there is no session, or its content
\* is undefined
CanonicalIsUndefined == session.kind # "doc" \/ session.content = UNDEF

\* C25: getResolvedContent returns undefined exactly when getCanonicalContent
\* does; when getCanonicalContent yields a value, falsy values included, the
\* canonical branches of the result carry that value.
AccessorsAgreeOnContent ==
    /\ op = "getCanonicalContent" => ((ret.kind = "undefined") <=> CanonicalIsUndefined)
    /\ Resolved => ((ret.kind = "undefined") <=> CanonicalIsUndefined)
    /\ (HasResult /\ ret.freshnessStatus \in {"canonical", "missing"})
       => ret.contentToUse = session.content

\* C26: a result with freshness "missing" reports a languageUsed that differs
\* from the requested language, also when the original language of the
\* session cannot be determined.
MissingIsNotRequestedLanguage ==
    (HasResult /\ ret.freshnessStatus = "missing")
    => ret.languageUsed # selectedLang

----------------------------------------------------------------------------
(* The three levels of counter documents                                    *)

\* the sum of the values of a function with a finite domain
SumOver(f) ==
    LET S[T \in SUBSET DOMAIN f] ==
            IF T = {} THEN 0
            ELSE LET x == CHOOSE y \in T : TRUE IN f[x] + S[T \ {x}]
    IN  S[DOMAIN f]

CounterFields == Members(ALL_COUNTER_FIELDS)

PeriodIds == {getDailyPeriodId(date) : date \in Dates}

StoredCounter(path, field) == Counter(DocumentAt(store, path).counters, field)

GlobalCounter(field) == StoredCounter("usage/counters/global/totals", field)

DailyCounter(p, field) == StoredCounter("usage/counters/daily/" \o p, field)

OrgCounter(p, o, field) ==
    StoredCounter("usage/counters/daily/" \o p \o "/orgs/" \o o, field)

\* every call made so far has completed successfully
AllSucceeded == \A c \in CallIds : calls[c].pc \in {"idle", "done"}

\* C27: after calls that all completed successfully, every counter field of
\* the global totals is the sum of that field over the daily documents, and
\* every field of a daily document is the sum over its per-org documents.
CounterLevelsAgree ==
    AllSucceeded =>
        \A f \in CounterFields :
            /\ GlobalCounter(f) = SumOver([p \in PeriodIds |-> DailyCounter(p, f)])
            /\ \A p \in PeriodIds :
                  DailyCounter(p, f) = SumOver([o \in OrgIds |-> OrgCounter(p, o, f)])

\* two successful calls of two organisations on the same day
CounterLevelsAgreeWitness ==
    /\ AllSucceeded
    /\ \E c, d \in CallIds :
          /\ Succeeded(c) /\ Succeeded(d)
          /\ calls[c].periodId = calls[d].periodId
          /\ calls[c].options.orgId # calls[d].options.orgId
          /\ calls[c].options.action = "session"
          /\ calls[d].options.action = "session"
          /\ DailyCounter(calls[c].periodId, "sessions_started") = 2
          /\ OrgCounter(calls[c].periodId, calls[c].options.orgId, "sessions_started") = 1

----------------------------------------------------------------------------
(* Concurrent calls                                                         *)

\* every call made so far has ended, successfully or not
AllEnded == \A c \in CallIds : calls[c].pc \in {"idle", "done", "failed"}

\* the increments call c has addressed to the counter document at a path
IncrementsTo(c, path, field) ==
    SumOver([i \in {j \in 1 .. Len(calls[c].writes) : calls[c].writes[j].path = path}
               |-> Counter(calls[c].writes[i].data.counters, field)])

CounterPaths ==
    {"usage/counters/global/totals"}
        \cup {"usage/counters/daily/" \o p : p \in PeriodIds}
        \cup {"usage/counters/daily/" \o p \o "/orgs/" \o o : p \in PeriodIds, o \in OrgIds}

\* C30: once all concurrent calls have completed, every field of every
\* counter document is the sum of the increments of the events addressed to
\* that document, whatever the order in which the writes interleaved: the
\* fields stored are the sums, and every increment written is stored.
NoLostUpdates ==
    AllEnded =>
        /\ DOMAIN store \subseteq CounterPaths
        /\ \A q \in DOMAIN store : \A f \in DOMAIN store[q].counters :
              store[q].counters[f] = SumOver([c \in CallIds |-> IncrementsTo(c, q, f)])
        /\ \A c \in CallIds : \A i \in 1 .. Len(calls[c].writes) :
              calls[c].writes[i].path # "usage/events/data" =>
                  /\ calls[c].writes[i].path \in DOMAIN store
                  /\ DOMAIN calls[c].writes[i].data.counters \subseteq
                        DOMAIN store[calls[c].writes[i].path].counters

\* two calls for the same organisation and day both completed: each of the
\* three documents holds both increments
NoLostUpdatesWitness ==
    /\ AllEnded
    /\ \E c, d \in CallIds :
          /\ c # d
          /\ Succeeded(c) /\ Succeeded(d)
          /\ calls[c].periodId = calls[d].periodId
          /\ calls[c].options.orgId = calls[d].options.orgId
          /\ calls[c].options.action = "mcp_context_list"
          /\ calls[d].options.action = "mcp_context_list"
          /\ GlobalCounter("mcp_total") = 2
          /\ OrgCounter(calls[c].periodId, calls[c].options.orgId, "mcp_total") = 2

----------------------------------------------------------------------------
(* Bounds on the counters                                                   *)

SessionLogged == nEvents > 0

SourceFamily == {"sessions_screen", "sessions_camera"}

OutputFamily == {"sessions_workflow", "sessions_teach_ai"}

\* C28: the mapping of a session event holds sessions_started, at most one
\* field of the recording source family and at most one of the output type
\* family, each with the amount 1; so after any sequence of session events
\* each family sums to at most sessions_started.
SessionFamiliesAtMostStarted ==
    SessionLogged =>
        /\ "sessions_started" \in DOMAIN updates
        /\ \A f \in DOMAIN updates : updates[f] = 1
        /\ Cardinality(DOMAIN updates \cap SourceFamily) <= 1
        /\ Cardinality(DOMAIN updates \cap OutputFamily) <= 1
        /\ Counter(counters, "sessions_started") = nEvents
        /\ Counter(counters, "sessions_screen") + Counter(counters, "sessions_camera")
              <= Counter(counters, "sessions_started")
        /\ Counter(counters, "sessions_workflow") + Counter(counters, "sessions_teach_ai")
              <= Counter(counters, "sessions_started")

\* after a camera session for teach_ai and a session with no properties, the
\* families sum to less than sessions_started
SessionFamiliesAtMostStartedWitness ==
    /\ nEvents = 2
    /\ Counter(counters, "sessions_started") = 2
    /\ Counter(counters, "sessions_camera") = 1
    /\ Counter(counters, "sessions_screen") = 0
    /\ Counter(counters, "sessions_teach_ai") = 1
    /\ Counter(counters, "sessions_workflow") = 0
    /\ DOMAIN updates = {"sessions_started"}

\* C29: every amount getCounterUpdates passes to increment is strictly
\* positive, for every action and every property bag, so applying the
\* mapping makes no counter field decrease.
CountersOnlyGrow ==
    /\ [](Mapped => \A f \in DOMAIN updates : updates[f] > 0)
    /\ [][\A f \in DOMAIN counters \cup DOMAIN counters' :
             Counter(counters', f) >= Counter(counters, f)]_vars

\* a Video Forge event with a negative token count, a zero token count and
\* a positive cost: only the cost is added
CountersOnlyGrowWitness ==
    /\ Mapped
    /\ isVideoForgeAction(event.action)
    /\ event.properties.kind = "object"
    /\ event.properties.input_tokens = Number(-1)
    /\ event.properties.output_tokens = Number(0)
    /\ event.properties.cost_usd = Number(5000)
    /\ DOMAIN updates = {"video_forge_cost_usd"}
    /\ Counter(counters, "video_forge_cost_usd") = 5000

====
